---- MODULE Spec2Model ----
(***************************************************************************)
(* A model of the Foreman process supervisor (foreman.go): the dependency  *)
(* graph algorithms (isCyclic, topSort), the startup sequence of Start(),  *)
(* startService, the per-service checker goroutine, and the signal loop    *)
(* with sigIntHandler and sigChildHandler.                                 *)
(***************************************************************************)
EXTENDS Naturals, Integers, Sequences, FiniteSets, TLC

(***************************************************************************)
(* Bounds of the model.                                                    *)
(***************************************************************************)
\* longest dependency list of a graph handed to isCyclic / topSort alone
MaxGraphDeps == 2

\* the service names a graph under test may declare or depend on
GraphNames == {"a", "b", "c"}

(***************************************************************************)
(* Dependency graph: map[string][]string.  A graph is a function from the  *)
(* declared names to their dependency lists; a name that is no key reads   *)
(* as the nil slice.                                                       *)
(***************************************************************************)
notVisited == 0
currentlyVisiting == 1
visited == 2

\* every string that may occur as a map key in the model
AllNames == GraphNames \cup {"", "x"}

SeqsUpTo(S, n) == UNION {[1..k -> S] : k \in 0..n}

Range(s) == {s[i] : i \in DOMAIN s}

\* the orders in which a Go range statement may visit the keys S
Perms(S) == {o \in [1..Cardinality(S) -> S] : Range(o) = S}

\* g[vertix] of the code: the nil slice for a missing key
Children(g, vertix) == IF vertix \in DOMAIN g THEN g[vertix] ELSE <<>>

\* state := make(map[string]vertixStatus): every key reads notVisited
EmptyState == [n \in AllNames |-> notVisited]

RECURSIVE isCyclicDfs(_, _, _), isCyclicChildren(_, _, _, _)
\* the closure dfs of isCyclic; st carries the captured state map and cyclic
isCyclicDfs(g, vertix, st) ==
    IF st.state[vertix] = visited THEN st
    ELSE IF st.state[vertix] = currentlyVisiting THEN [st EXCEPT !.cyclic = TRUE]
    ELSE LET st1 == [st EXCEPT !.state[vertix] = currentlyVisiting]
             st2 == isCyclicChildren(g, Children(g, vertix), 1, st1)
         IN  [st2 EXCEPT !.state[vertix] = visited]

\* for _, child := range g[vertix] { dfs(child) }
isCyclicChildren(g, kids, i, st) ==
    IF i > Len(kids) THEN st
    ELSE isCyclicChildren(g, kids, i + 1, isCyclicDfs(g, kids[i], st))

RECURSIVE isCyclicRoots(_, _, _, _)
\* for vertix := range g { dfs(vertix) }, the keys visited in the given order
isCyclicRoots(g, order, i, st) ==
    IF i > Len(order) THEN st
    ELSE isCyclicRoots(g, order, i + 1, isCyclicDfs(g, order[i], st))

RECURSIVE twoColourDfs(_, _, _), twoColourChildren(_, _, _, _)
\* a plausible slip: one colour for "in progress" and "done", so that meeting
\* any vertex seen before counts as a back edge
twoColourDfs(g, vertix, st) ==
    IF st.state[vertix] # notVisited THEN [st EXCEPT !.cyclic = TRUE]
    ELSE twoColourChildren(g, Children(g, vertix), 1,
                           [st EXCEPT !.state[vertix] = visited])

twoColourChildren(g, kids, i, st) ==
    IF i > Len(kids) THEN st
    ELSE twoColourChildren(g, kids, i + 1, twoColourDfs(g, kids[i], st))

RECURSIVE twoColourRoots(_, _, _, _)
twoColourRoots(g, order, i, st) ==
    IF i > Len(order) THEN st
    ELSE IF st.state[order[i]] # notVisited THEN twoColourRoots(g, order, i + 1, st)
    ELSE twoColourRoots(g, order, i + 1, twoColourDfs(g, order[i], st))

isCyclicTwoColour(g, order) ==
    twoColourRoots(g, order, 1, [state |-> EmptyState, cyclic |-> FALSE]).cyclic

\* a plausible slip: "cyclic := true" inside the closure shadows the result
isCyclicShadowed(g, order) == FALSE

isCyclic(g, order) ==
    isCyclicRoots(g, order, 1, [state |-> EmptyState, cyclic |-> FALSE]).cyclic

RECURSIVE preorderDfs(_, _, _), preorderChildren(_, _, _, _)
\* a plausible slip: the vertex is appended before its children are visited
preorderDfs(g, vertix, st) ==
    IF st.state[vertix] = visited THEN st
    ELSE LET st1 == [st EXCEPT !.state[vertix] = visited,
                               !.out = Append(st.out, vertix)]
         IN  preorderChildren(g, Children(g, vertix), 1, st1)

preorderChildren(g, kids, i, st) ==
    IF i > Len(kids) THEN st
    ELSE preorderChildren(g, kids, i + 1, preorderDfs(g, kids[i], st))

RECURSIVE preorderRoots(_, _, _, _)
preorderRoots(g, order, i, st) ==
    IF i > Len(order) THEN st
    ELSE preorderRoots(g, order, i + 1, preorderDfs(g, order[i], st))

topSortPreorder(g, order) ==
    preorderRoots(g, order, 1, [state |-> EmptyState, out |-> <<>>]).out

RECURSIVE topSortDfs(_, _, _), topSortChildren(_, _, _, _)
\* the closure dfs of topSort; st carries the captured state map and out
topSortDfs(g, vertix, st) ==
    IF st.state[vertix] = visited THEN st
    ELSE LET st1 == [st EXCEPT !.state[vertix] = visited]
             st2 == topSortChildren(g, Children(g, vertix), 1, st1)
         IN  [st2 EXCEPT !.out = Append(st2.out, vertix)]

topSortChildren(g, kids, i, st) ==
    IF i > Len(kids) THEN st
    ELSE topSortChildren(g, kids, i + 1, topSortDfs(g, kids[i], st))

\* a variant in which the visited marks do not survive from one root to the
\* next
RECURSIVE topSortRootsForgetting(_, _, _, _)
topSortRootsForgetting(g, order, i, st) ==
    IF i > Len(order) THEN st
    ELSE topSortRootsForgetting(g, order, i + 1,
             topSortDfs(g, order[i], [st EXCEPT !.state = EmptyState]))

RECURSIVE topSortRoots(_, _, _, _)
topSortRoots(g, order, i, st) ==
    IF i > Len(order) THEN st
    ELSE topSortRoots(g, order, i + 1, topSortDfs(g, order[i], st))

topSort(g, order) ==
    topSortRoots(g, order, 1, [state |-> EmptyState, out |-> <<>>]).out

(***************************************************************************)
(* What the graph algorithms are measured against: the edge relation and   *)
(* its transitive closure, defined without any traversal.                  *)
(***************************************************************************)
DependsOn(g, u, v) == u \in DOMAIN g /\ v \in Range(g[u])

Successors(g, S) == {v \in AllNames : \E u \in S : DependsOn(g, u, v)}

RECURSIVE ReachWithin(_, _, _)
\* the vertices reachable from S by 1..n edges
ReachWithin(g, S, n) ==
    IF n = 0 THEN {}
    ELSE Successors(g, S) \cup ReachWithin(g, Successors(g, S), n - 1)

HasCycle(g) ==
    \E v \in DOMAIN g : v \in ReachWithin(g, {v}, Cardinality(DOMAIN g))

\* the position of name n in the sequence s, 0 when absent
IndexOf(s, n) ==
    IF n \in Range(s) THEN CHOOSE i \in DOMAIN s : s[i] = n /\ \A j \in 1..(i - 1) : s[j] # n
    ELSE 0


(***************************************************************************)
(* The supervisor: Foreman, its registry of services, the processes it has *)
(* spawned, the checker goroutines and the signals on their way to it.     *)
(***************************************************************************)
\* processes the supervisor may spawn before the host refuses another fork
MaxSpawns == 3

\* longest dependency list of a service in the Procfile
MaxDeps == 1

\* the services the Procfile declares, and the names its deps may mention
Declared == {"a", "b"}

DepNames == {"a", "b"}

\* service.process == nil
Nil == 0

VARIABLES
    services,    \* f.services: name -> Service
    fActive,     \* f.active
    pc,          \* where the goroutine running Start() is
    startList,   \* startList of Start()
    startIdx,    \* position of Start()'s loop in startList
    startErr,    \* the error Start() returned, "none" before
    hTodo,       \* keys sigChildHandler's range has yet to visit
    hKey,        \* serviceName of the current iteration of sigChildHandler
    hService,    \* service, the current iteration's copy of the entry
    procs,       \* the processes spawned so far; the index is the pid
    checkers,    \* one checker goroutine per successful startService
    intSent,     \* the pids sigIntHandler has sent SIGINT to
    killFailed,  \* the pids a checker's SIGINT found no process for
    depKilled,   \* the pids sent SIGINT by a checker whose checkDeps failed
    lastStart,   \* the last call of startService and what it returned
    tGraph, tOrder, tCyclic, tSorted, tpc,
    tIn,         \* the arguments of the function applied alone
    tOut         \* what it returned

svars == <<services, fActive, pc, startList, startIdx, startErr, hTodo, hKey,
           hService, procs, checkers, intSent, killFailed, depKilled, lastStart>>

tvars == <<tGraph, tOrder, tCyclic, tSorted, tpc, tIn, tOut>>

vars == <<svars, tvars>>

\* the zero value of type Service, with the fields the supervisor reads
ZeroService ==
    [serviceName |-> "", active |-> FALSE, process |-> Nil,
     runOnce |-> FALSE, deps |-> <<>>]

\* f.services[name]: the zero Service for a missing key
Lookup(name) == IF name \in DOMAIN services THEN services[name] ELSE ZeroService

\* m[k] = v on a Go map
Put(m, k, v) == [n \in (DOMAIN m) \cup {k} |-> IF n = k THEN v ELSE m[n]]

\* the Procfiles New() may have parsed
Procfiles == [Declared -> [runOnce : BOOLEAN, deps : SeqsUpTo(DepNames, MaxDeps)]]

\* New(): every declared service registered, none started, f.active true
New(procfile) ==
    [n \in Declared |->
        [serviceName |-> n, active |-> FALSE, process |-> Nil,
         runOnce |-> procfile[n].runOnce, deps |-> procfile[n].deps]]

\* a plausible slip: a service without dependencies gets no key
buildDependencyGraphSkippingLeaves ==
    [n \in {k \in DOMAIN services : services[k].deps # <<>>} |-> services[n].deps]

buildDependencyGraph == [n \in DOMAIN services |-> services[n].deps]

\* a variant that asks whether the dependency's process is still running
\* instead of reading the entry's active flag
RECURSIVE checkDepsFromRunning(_, _)
checkDepsFromRunning(deps, i) ==
    IF i > Len(deps) THEN TRUE
    ELSE IF ~(Lookup(deps[i]).active
              /\ Lookup(deps[i]).process \in DOMAIN procs
              /\ procs[Lookup(deps[i]).process].st = "running") THEN FALSE
    ELSE checkDepsFromRunning(deps, i + 1)

RECURSIVE checkDepsFrom(_, _)
\* the loop of checkDeps from position i: FALSE is "Broken dependency"
checkDepsFrom(deps, i) ==
    IF i > Len(deps) THEN TRUE
    ELSE IF ~Lookup(deps[i]).active THEN FALSE
    ELSE checkDepsFrom(deps, i + 1)

\* a plausible slip: the error of the loop is dropped
checkDepsIgnored(serviceName) == TRUE

\* checkDeps(serviceName) == nil
checkDeps(serviceName) == checkDepsFrom(Lookup(serviceName).deps, 1)

\* the supervisor has not exited, returned from Start() or been killed
Running ==
    pc \in {"starting", "wait", "chld", "chldRestart", "chldWrite", "int", "intKill"}

\* signal.Notify(sigs, SIGCHLD, SIGINT) has been called
Notified == pc \in {"wait", "chld", "chldRestart", "chldWrite", "int", "intKill"}

Exists(pid) == pid \in DOMAIN procs /\ procs[pid].st \in {"running", "zombie"}

\* serviceExec.Start(): the host may refuse the fork, and does once MaxSpawns
\* processes have been spawned
SpawnOutcomes == IF Len(procs) < MaxSpawns THEN {TRUE, FALSE} ELSE {FALSE}

\* a plausible slip: the entry is marked active before serviceExec.Start()
\* is known to have succeeded
startServiceEagerEntry(serviceName, err) ==
    LET service == Lookup(serviceName) IN
    /\ lastStart' = [name |-> serviceName, err |-> err]
    /\ IF ~checkDeps(serviceName)
       THEN /\ err = "broken"
            /\ UNCHANGED <<services, procs, checkers>>
       ELSE \E ok \in SpawnOutcomes :
              IF ~ok
              THEN /\ err = "spawn"
                   /\ services' = Put(services, serviceName,
                                      [service EXCEPT !.active = TRUE])
                   /\ UNCHANGED <<procs, checkers>>
              ELSE /\ err = "none"
                   /\ procs' = Append(procs, [name |-> serviceName, st |-> "running"])
                   /\ services' = Put(services, serviceName,
                                      [service EXCEPT !.active = TRUE,
                                                      !.process = Len(procs) + 1])
                   /\ checkers' = Append(checkers,
                                         [name |-> serviceName, pc |-> "new", pid |-> Nil])

\* startService(serviceName) returning err
startService(serviceName, err) ==
    LET service == Lookup(serviceName) IN
    /\ lastStart' = [name |-> serviceName, err |-> err]
    /\ IF ~checkDeps(serviceName)
       THEN /\ err = "broken"
            /\ UNCHANGED <<services, procs, checkers>>
       ELSE \E ok \in SpawnOutcomes :
              IF ~ok
              THEN /\ err = "spawn"
                   /\ UNCHANGED <<services, procs, checkers>>
              ELSE /\ err = "none"
                   /\ procs' = Append(procs, [name |-> serviceName, st |-> "running"])
                   /\ services' = Put(services, serviceName,
                                      [service EXCEPT !.active = TRUE,
                                                      !.process = Len(procs) + 1])
                   /\ checkers' = Append(checkers,
                                         [name |-> serviceName, pc |-> "new", pid |-> Nil])

Errors == {"none", "broken", "spawn"}

Init ==
    /\ services \in {New(procfile) : procfile \in Procfiles}
    /\ fActive = TRUE
    /\ pc = "new"
    /\ startList = <<>>
    /\ startIdx = 0
    /\ startErr = "none"
    /\ hTodo = {}
    /\ hKey = ""
    /\ hService = ZeroService
    /\ procs = <<>>
    /\ checkers = <<>>
    /\ intSent = {}
    /\ killFailed = {}
    /\ depKilled = {}
    /\ lastStart = [name |-> "", err |-> "none"]
    /\ tGraph = <<>> /\ tOrder = <<>> /\ tCyclic = FALSE /\ tSorted = <<>>
    /\ tpc = "off"
    /\ tIn = <<>> /\ tOut = <<>>

(***************************************************************************)
(* Start()                                                                 *)
(***************************************************************************)
\* Start() up to its loop: the graph, the cycle check, the start list
Start ==
    /\ pc = "new"
    /\ LET depGraph == buildDependencyGraph IN
       \E o1 \in Perms(DOMAIN depGraph), o2 \in Perms(DOMAIN depGraph) :
          IF isCyclic(depGraph, o1)
          THEN /\ pc' = "returned"
               /\ startErr' = "cyclic"
               /\ UNCHANGED <<startList, startIdx>>
          ELSE /\ startList' = topSort(depGraph, o2)
               /\ startIdx' = 1
               /\ pc' = "starting"
               /\ UNCHANGED startErr
    /\ UNCHANGED <<services, fActive, hTodo, hKey, hService, procs, checkers, intSent,
                   killFailed, depKilled, lastStart, tvars>>

\* one iteration of Start()'s loop over startList
StartNext ==
    /\ pc = "starting"
    /\ startIdx <= Len(startList)
    /\ \E err \in Errors :
          /\ startService(startList[startIdx], err)
          /\ IF err # "none"
             THEN /\ pc' = "returned"
                  /\ startErr' = err
                  /\ UNCHANGED startIdx
             ELSE /\ startIdx' = startIdx + 1
                  /\ UNCHANGED <<pc, startErr>>
    /\ UNCHANGED <<fActive, startList, hTodo, hKey, hService, intSent, killFailed,
                   depKilled, tvars>>

\* signal.Notify(sigs, SIGCHLD, SIGINT), then the first <-sigs
StartNotify ==
    /\ pc = "starting"
    /\ startIdx > Len(startList)
    /\ pc' = "wait"
    /\ UNCHANGED <<services, fActive, startList, startIdx, startErr, hTodo, hKey,
                   hService, procs, checkers, intSent, killFailed, depKilled,
                   lastStart, tvars>>

(***************************************************************************)
(* sigChildHandler()                                                       *)
(***************************************************************************)
\* the next key of the range: its process is no zombie
ChldSkip ==
    /\ pc = "chld"
    /\ \E k \in hTodo :
          /\ ~(Exists(services[k].process) /\ procs[services[k].process].st = "zombie")
          /\ hTodo' = hTodo \ {k}
          \* service.process.Pid on an entry that was never started
          /\ pc' = IF services[k].process = Nil THEN "panic" ELSE pc
    /\ UNCHANGED <<services, fActive, startList, startIdx, startErr, hKey,
                   hService, procs, checkers, intSent, killFailed, depKilled,
                   lastStart, tvars>>

\* a plausible slip: the runOnce test is left out of the restart condition
restartWantedAlways(service) == fActive

\* !service.runOnce && f.active
restartWanted(service) == ~service.runOnce /\ fActive

\* a plausible slip: the handler does not test the child's status and treats
\* every entry whose process exists as terminated
ChldReapAnyStatus ==
    /\ pc = "chld"
    /\ \E k \in hTodo :
          LET service == services[k] IN
          /\ Exists(service.process)
          /\ hKey' = k
          /\ hService' = [service EXCEPT !.active = FALSE]
          /\ procs' = IF procs[service.process].st = "zombie"
                      THEN [procs EXCEPT ![service.process].st = "reaped"]
                      ELSE procs
          /\ pc' = IF restartWanted(service) THEN "chldRestart" ELSE "chldWrite"
    /\ UNCHANGED <<services, fActive, startList, startIdx, startErr, hTodo, checkers,
                   intSent, killFailed, depKilled, lastStart, tvars>>

\* the next key of the range: its process is a zombie; it is reaped
ChldReap ==
    /\ pc = "chld"
    /\ \E k \in hTodo :
          LET service == services[k] IN
          /\ Exists(service.process) /\ procs[service.process].st = "zombie"
          /\ hKey' = k
          /\ hService' = [service EXCEPT !.active = FALSE]
          /\ procs' = [procs EXCEPT ![service.process].st = "reaped"]
          /\ pc' = IF restartWanted(service) THEN "chldRestart" ELSE "chldWrite"
    /\ UNCHANGED <<services, fActive, startList, startIdx, startErr, hTodo, checkers,
                   intSent, killFailed, depKilled, lastStart, tvars>>

\* f.startService(service.serviceName), its error ignored
ChldRestart ==
    /\ pc = "chldRestart"
    /\ \E err \in Errors : startService(hService.serviceName, err)
    /\ pc' = "chldWrite"
    \* a key inserted during the range may or may not be produced by it
    /\ \E seen \in BOOLEAN :
          hTodo' = IF seen THEN hTodo \cup (DOMAIN services' \ DOMAIN services)
                   ELSE hTodo
    /\ UNCHANGED <<fActive, startList, startIdx, startErr, hKey, hService, intSent,
                   killFailed, depKilled, tvars>>

\* a plausible slip: the entry is written back only when the restart was not
\* rejected
ChldWriteUnlessRejected ==
    /\ pc = "chldWrite"
    /\ services' = IF lastStart = [name |-> hKey, err |-> "broken"]
                   THEN services
                   ELSE Put(services, hKey, hService)
    /\ hTodo' = hTodo \ {hKey}
    /\ pc' = "chld"
    /\ UNCHANGED <<fActive, startList, startIdx, startErr, hKey, hService, procs,
                   checkers, intSent, killFailed, depKilled, lastStart, tvars>>

\* f.services[serviceName] = service
ChldWrite ==
    /\ pc = "chldWrite"
    /\ services' = Put(services, hKey, hService)
    /\ hTodo' = hTodo \ {hKey}
    /\ pc' = "chld"
    /\ UNCHANGED <<fActive, startList, startIdx, startErr, hKey, hService, procs,
                   checkers, intSent, killFailed, depKilled, lastStart, tvars>>

\* the range is over: back to <-sigs
ChldDone ==
    /\ pc = "chld"
    /\ hTodo = {}
    /\ pc' = "wait"
    /\ UNCHANGED <<services, fActive, startList, startIdx, startErr, hTodo, hKey,
                   hService, procs, checkers, intSent, killFailed, depKilled,
                   lastStart, tvars>>

(***************************************************************************)
(* sigIntHandler()                                                         *)
(***************************************************************************)
\* a plausible slip: the flag is left as it was
sigIntFlagKept == fActive

\* f.active = false
sigIntFlag == FALSE

SigIntBegin ==
    /\ pc = "int"
    /\ fActive' = sigIntFlag
    /\ pc' = "intKill"
    /\ UNCHANGED <<services, startList, startIdx, startErr, hTodo, hKey, hService,
                   procs, checkers, intSent, killFailed, depKilled, lastStart, tvars>>

\* the pids the range of sigIntHandler signals: service.process.Pid of every
\* entry of f.services
sigIntTargets == {services[k].process : k \in DOMAIN services}

\* the range over f.services with its syscall.Kill, then os.Exit(0)
SigIntKillExit ==
    /\ pc = "intKill"
    /\ intSent' = sigIntTargets
    /\ pc' = IF Nil \in sigIntTargets THEN "panic" ELSE "exit0"
    /\ UNCHANGED <<services, fActive, startList, startIdx, startErr, hTodo, hKey,
                   hService, procs, checkers, killFailed, depKilled, lastStart, tvars>>

(***************************************************************************)
(* checker(serviceName), one goroutine per spawn                           *)
(***************************************************************************)
\* service := f.services[serviceName]
CheckerRead(c) ==
    /\ Running
    /\ checkers[c].pc = "new"
    /\ checkers' = [checkers EXCEPT ![c].pc = "wait",
                                    ![c].pid = Lookup(checkers[c].name).process]
    /\ UNCHANGED <<services, fActive, pc, startList, startIdx, startErr, hTodo, hKey,
                   hService, procs, intSent, killFailed, depKilled, lastStart, tvars>>

\* <-ticker.C and syscall.Kill(pid, 0): the goroutine returns on an error
CheckerProbe(c) ==
    /\ Running
    /\ checkers[c].pc = "wait"
    /\ checkers' = [checkers EXCEPT ![c].pc =
                        IF Exists(checkers[c].pid) THEN "checks" ELSE "done"]
    \* service.process.Pid on a copy that was never started
    /\ pc' = IF checkers[c].pid = Nil THEN "panic" ELSE pc
    /\ UNCHANGED <<services, fActive, startList, startIdx, startErr, hTodo, hKey,
                   hService, procs, intSent, killFailed, depKilled, lastStart, tvars>>

CheckKinds == {"cmd", "tcp", "udp"}

\* a variant in which the checker records a failed check in the registry
CheckerChecksDeactivating(c) ==
    LET pid == checkers[c].pid
        name == checkers[c].name
    IN
    /\ Running
    /\ checkers[c].pc = "checks"
    /\ \E failed \in SUBSET CheckKinds :
          /\ killFailed' = IF failed # {} /\ ~Exists(pid)
                           THEN killFailed \cup {pid}
                           ELSE killFailed
          /\ services' = IF failed # {}
                         THEN Put(services, name, [Lookup(name) EXCEPT !.active = FALSE])
                         ELSE services
    /\ checkers' = [checkers EXCEPT ![c].pc = "wait"]
    /\ UNCHANGED <<fActive, pc, startList, startIdx, startErr, hTodo, hKey,
                   hService, procs, intSent, depKilled, lastStart, tvars>>

\* the rest of the tick: checkDeps, checkCmd, checkPorts("tcp"),
\* checkPorts("udp"), each followed by syscall.Kill(pid, SIGINT) when it
\* returned an error; failed are the checks of the Procfile that do
CheckerChecks(c) ==
    LET pid == checkers[c].pid
        depsBroken == ~checkDeps(checkers[c].name)
    IN
    /\ Running
    /\ checkers[c].pc = "checks"
    /\ \E failed \in SUBSET CheckKinds :
          killFailed' = IF (depsBroken \/ failed # {}) /\ ~Exists(pid)
                        THEN killFailed \cup {pid}
                        ELSE killFailed
    /\ depKilled' = IF depsBroken /\ Exists(pid) THEN depKilled \cup {pid}
                     ELSE depKilled
    /\ checkers' = [checkers EXCEPT ![c].pc = "wait"]
    /\ UNCHANGED <<services, fActive, pc, startList, startIdx, startErr, hTodo, hKey,
                   hService, procs, intSent, lastStart, tvars>>

(***************************************************************************)
(* The environment: children exit, the user interrupts the supervisor.     *)
(* sigs is unbuffered and package signal sends without blocking: a signal  *)
(* reaches the loop of Start() only if it is raised while the loop is      *)
(* blocked in <-sigs; SIGCHLD is ignored and SIGINT fatal before           *)
(* signal.Notify.                                                          *)
(***************************************************************************)
\* a child exits while the loop is blocked in <-sigs: SIGCHLD is received
ChildExitsNotified(pid) ==
    /\ pc = "wait"
    /\ procs[pid].st = "running"
    /\ procs' = [procs EXCEPT ![pid].st = "zombie"]
    /\ pc' = "chld"
    /\ hTodo' = DOMAIN services
    /\ UNCHANGED <<services, fActive, startList, startIdx, startErr, hKey, hService,
                   checkers, intSent, killFailed, depKilled, lastStart, tvars>>

\* a child exits while nothing receives from sigs: its SIGCHLD is lost
ChildExitsUnnoticed(pid) ==
    /\ Running
    /\ pc # "wait"
    /\ procs[pid].st = "running"
    /\ procs' = [procs EXCEPT ![pid].st = "zombie"]
    /\ UNCHANGED <<services, fActive, pc, startList, startIdx, startErr, hTodo, hKey,
                   hService, checkers, intSent, killFailed, depKilled, lastStart,
                   tvars>>

\* SIGINT while the loop is blocked in <-sigs
Interrupt ==
    /\ pc = "wait"
    /\ pc' = "int"
    /\ UNCHANGED <<services, fActive, startList, startIdx, startErr, hTodo, hKey,
                   hService, procs, checkers, intSent, killFailed, depKilled,
                   lastStart, tvars>>

\* SIGINT before signal.Notify: the runtime's default action ends the program
InterruptDefault ==
    /\ pc = "starting"
    /\ pc' = "killed"
    /\ UNCHANGED <<services, fActive, startList, startIdx, startErr, hTodo, hKey,
                   hService, procs, checkers, intSent, killFailed, depKilled,
                   lastStart, tvars>>

(***************************************************************************)
(* f.services is a plain map shared by the goroutine of Start() and the    *)
(* checker goroutines, with no lock around it.                             *)
(***************************************************************************)
\* the goroutine of Start() is about to store into f.services: line 138 of
\* a startService call that will get that far, or line 215
RegistryWritePending ==
    \/ pc = "chldWrite"
    \/ /\ pc = "chldRestart"
       /\ checkDeps(hService.serviceName)
       /\ TRUE \in SpawnOutcomes
    \/ /\ pc = "starting"
       /\ startIdx <= Len(startList)
       /\ checkDeps(startList[startIdx])
       /\ TRUE \in SpawnOutcomes

\* checker c is about to read f.services: its lookup at line 149 or the
\* checkDeps of its tick
RegistryReadPending(c) ==
    /\ Running
    /\ checkers[c].pc \in {"new", "checks"}

\* the read and the write overlap and the runtime notices: "fatal error:
\* concurrent map read and map write" ends the program.  When it does not
\* notice, the read sees the map before or after the write, which is what the
\* other actions give.
MapAccessFatal(c) ==
    /\ RegistryReadPending(c)
    /\ RegistryWritePending
    /\ pc' = "fatal"
    /\ UNCHANGED <<services, fActive, startList, startIdx, startErr, hTodo, hKey,
                   hService, procs, checkers, intSent, killFailed, depKilled,
                   lastStart, tvars>>

Next ==
    \/ Start
    \/ StartNext
    \/ StartNotify
    \/ ChldSkip
    \/ ChldReap
    \/ ChldRestart
    \/ ChldWrite
    \/ ChldDone
    \/ SigIntBegin
    \/ SigIntKillExit
    \/ \E c \in DOMAIN checkers : CheckerRead(c)
    \/ \E c \in DOMAIN checkers : CheckerProbe(c)
    \/ \E c \in DOMAIN checkers : CheckerChecks(c)
    \/ \E c \in DOMAIN checkers : MapAccessFatal(c)
    \/ \E pid \in DOMAIN procs : ChildExitsNotified(pid)
    \/ \E pid \in DOMAIN procs : ChildExitsUnnoticed(pid)
    \/ Interrupt
    \/ InterruptDefault

Spec == Init /\ [][Next]_vars

\* the goroutine of Start() and every checker goroutine keep being scheduled;
\* nothing is assumed of the children or of the user
MainStep ==
    \/ Start \/ StartNext \/ StartNotify
    \/ ChldSkip \/ ChldReap \/ ChldRestart \/ ChldWrite \/ ChldDone
    \/ SigIntBegin \/ SigIntKillExit

CheckerStep(c) ==
    /\ c \in DOMAIN checkers
    /\ CheckerRead(c) \/ CheckerProbe(c) \/ CheckerChecks(c)

FairSpec ==
    /\ Spec
    /\ WF_vars(MainStep)
    /\ \A c \in 1..MaxSpawns : WF_vars(CheckerStep(c))

(***************************************************************************)
(* The graph algorithms applied alone to every bounded graph.              *)
(***************************************************************************)
TestGraphs ==
    UNION {[D -> SeqsUpTo(GraphNames, MaxGraphDeps)] : D \in SUBSET GraphNames \ {{}}}

GraphInit ==
    /\ tGraph \in TestGraphs
    /\ tOrder = <<>>
    /\ tCyclic = FALSE
    /\ tSorted = <<>>
    /\ tpc = "input"
    /\ tIn = <<>> /\ tOut = <<>>
    /\ services = <<>> /\ fActive = TRUE /\ pc = "off" /\ startList = <<>>
    /\ startIdx = 0 /\ startErr = "none" /\ hTodo = {} /\ hKey = ""
    /\ hService = ZeroService /\ procs = <<>> /\ checkers = <<>>
    /\ intSent = {} /\ killFailed = {} /\ depKilled = {}
    /\ lastStart = [name |-> "", err |-> "none"]

RunIsCyclic ==
    /\ tpc = "input"
    /\ \E order \in Perms(DOMAIN tGraph) :
          /\ tOrder' = order
          /\ tCyclic' = isCyclic(tGraph, order)
    /\ tpc' = "isCyclic"
    /\ UNCHANGED <<tGraph, tSorted, tIn, tOut, svars>>

RunTopSort ==
    /\ tpc = "input"
    /\ \E order \in Perms(DOMAIN tGraph) :
          /\ tOrder' = order
          /\ tSorted' = topSort(tGraph, order)
    /\ tpc' = "topSort"
    /\ UNCHANGED <<tGraph, tCyclic, tIn, tOut, svars>>

GraphNext == RunIsCyclic \/ RunTopSort

GraphSpec == GraphInit /\ [][GraphNext]_vars

(***************************************************************************)
(* Properties                                                              *)
(***************************************************************************)
\* the declared dependencies of a registered service
DepsOf(name) == Range(Lookup(name).deps)

\* some declared dependency of name is not active in the registry
BrokenDep(name) == \E d \in DepsOf(name) : ~Lookup(d).active

\* the pids of the processes spawned for service name
PidsOf(name) == {p \in DOMAIN procs : procs[p].name = name}

\* C1: within Start() on an acyclic graph the services are spawned in
\* topological order: the processes spawned so far are those of the start
\* list's prefix, every dependency of a spawned service was spawned before it,
\* and the service whose turn it is finds each of its dependencies spawned and
\* marked active.
StartSpawnsInTopologicalOrder ==
    pc = "starting" =>
        /\ [p \in DOMAIN procs |-> procs[p].name] = SubSeq(startList, 1, startIdx - 1)
        /\ \A p \in DOMAIN procs : \A d \in DepsOf(procs[p].name) :
              \E q \in 1..(p - 1) : procs[q].name = d
        /\ startIdx <= Len(startList) =>
              \A d \in DepsOf(startList[startIdx]) :
                  PidsOf(d) # {} /\ Lookup(d).active

\* a was spawned after its dependency b, whose checker has not run yet
DependentSpawnedBeforeAnyCheck ==
    /\ pc = "starting"
    /\ Len(procs) = 2
    /\ services["a"].deps = <<"b">>
    /\ procs[1].name = "b" /\ procs[2].name = "a"
    /\ checkers[1].pc = "new"

\* C2: for every acyclic graph and every iteration order, topSort returns a
\* sequence in which every dependency occurs before each of its dependents
\* (directly declared or reached transitively).
TopSortRespectsEdges ==
    (tpc = "topSort" /\ ~HasCycle(tGraph)) =>
        \A u \in DOMAIN tGraph :
            \A v \in ReachWithin(tGraph, {u}, Cardinality(AllNames)) :
                /\ IndexOf(tSorted, u) > 0
                /\ IndexOf(tSorted, v) > 0
                /\ IndexOf(tSorted, v) < IndexOf(tSorted, u)

\* the chain c -> b -> a, its keys visited c, a, b
TopSortChainSorted ==
    /\ tpc = "topSort"
    /\ tGraph = [a |-> <<>>, b |-> <<"a">>, c |-> <<"b">>]
    /\ tOrder = <<"c", "a", "b">>
    /\ tSorted = <<"a", "b", "c">>

\* C3: isCyclic returns true exactly when the graph has a directed cycle
\* (a self-dependency included), whatever the order of the roots.
IsCyclicIffCycle ==
    tpc = "isCyclic" => (tCyclic = HasCycle(tGraph))

\* a self-dependency of b reached through a is reported
IsCyclicSelfLoopFound ==
    /\ tpc = "isCyclic"
    /\ tGraph = [a |-> <<"b">>, b |-> <<"b">>]
    /\ tOrder = <<"a", "b">>
    /\ tCyclic = TRUE

\* C4: on a cyclic graph Start() returns the cyclic-dependency error and
\* nothing is started: no process, no checker, no service active, no pid
\* recorded, and the signal loop is never entered.
CyclicStartsNothing ==
    HasCycle(buildDependencyGraph) =>
        /\ pc \in {"new", "returned"}
        /\ pc = "returned" => startErr = "cyclic"
        /\ procs = <<>>
        /\ checkers = <<>>
        /\ \A k \in DOMAIN services :
              ~services[k].active /\ services[k].process = Nil

\* Start() has returned on the cycle a -> b -> a
CyclicStartReturned ==
    /\ pc = "returned"
    /\ startErr = "cyclic"
    /\ services["a"].deps = <<"b">>
    /\ services["b"].deps = <<"a">>

\* process p has terminated and a later process of its service exists
Respawned(p) == \E q \in DOMAIN procs : q > p /\ procs[q].name = procs[p].name

\* process p of a declared service that is not run-once has terminated while
\* the supervisor runs, the system is active and every dependency is active
TerminatedRestartable(p) ==
    /\ p \in DOMAIN procs
    /\ procs[p].st # "running"
    /\ procs[p].name \in Declared
    /\ ~Lookup(procs[p].name).runOnce
    /\ Running /\ fActive
    /\ ~BrokenDep(procs[p].name)

\* C5: whenever the process of a service that is not run-once terminates
\* while the system is active and the service's dependencies are active, a new
\* process is eventually spawned for that service (unless meanwhile the
\* supervisor stops, the system or a dependency turns inactive, or the host
\* refuses the spawn), also when the terminated process came from a restart.
TerminatedServiceIsRestarted ==
    \A p \in 1..MaxSpawns :
        TerminatedRestartable(p) ~>
            /\ p \in DOMAIN procs
            /\ \/ Respawned(p)
               \/ ~Running \/ ~fActive
               \/ BrokenDep(procs[p].name)
               \/ lastStart = [name |-> procs[p].name, err |-> "spawn"]

\* C6: a run-once service is spawned at most once, whatever notifications,
\* interrupts and checks follow the exit of its process.
RunOnceSpawnedAtMostOnce ==
    \A k \in DOMAIN services :
        services[k].runOnce => Cardinality(PidsOf(k)) <= 1

\* the process of run-once a was reaped, and a later notification restarted b
RunOnceStaysStopped ==
    /\ pc = "wait"
    /\ services["a"].runOnce
    /\ \E p \in PidsOf("a") : procs[p].st = "reaped"
    /\ Cardinality(PidsOf("b")) = 2

\* the step is a call of startService(name)
Calls(name) ==
    \/ StartNext /\ name = startList[startIdx]
    \/ ChldRestart /\ name = hService.serviceName

\* C7: startService(name) called while a declared dependency of name is not
\* active returns the broken-dependency error, spawns no process, launches no
\* checker and leaves the registry as it is.
BrokenDependencyRejected ==
    [][\A name \in AllNames :
         (Calls(name) /\ BrokenDep(name)) =>
            /\ lastStart' = [name |-> name, err |-> "broken"]
            /\ procs' = procs
            /\ checkers' = checkers
            /\ services' = services]_vars

\* the restart of a was rejected: its entry is still as startService found it
RestartRejected ==
    /\ pc = "chldWrite"
    /\ hKey = "a"
    /\ lastStart = [name |-> "a", err |-> "broken"]
    /\ services["a"].active
    /\ procs[services["a"].process].st = "reaped"
    /\ Cardinality(PidsOf("a")) = 1

\* process p runs while a dependency of its service is inactive
RunsOnBrokenDep(p) ==
    /\ p \in DOMAIN procs
    /\ procs[p].st = "running"
    /\ Running
    /\ BrokenDep(procs[p].name)

\* C8: if a dependency of a service is inactive while the service's process
\* runs, a checker eventually sends SIGINT to that process because checkDeps
\* failed (unless the process ends, the supervisor stops or the dependency is
\* active again first, or the host has refused the last spawn).
BrokenDepIsInterrupted ==
    \A p \in 1..MaxSpawns :
        RunsOnBrokenDep(p) ~>
            \/ p \in depKilled
            \/ ~RunsOnBrokenDep(p)
            \/ lastStart.err = "spawn"

\* C9: f.active == false is terminal: the interrupt handler sets it, it never
\* becomes true again, and no process is spawned from then on.
InactiveIsTerminal ==
    [][/\ pc' \in {"intKill", "exit0"} => ~fActive'
       /\ ~fActive => (~fActive' /\ Len(procs') = Len(procs))]_vars

\* the system is inactive and a child that would be restarted has terminated
InactiveWithTerminatedChild ==
    /\ ~fActive
    /\ pc = "intKill"
    /\ \E p \in DOMAIN procs :
          /\ procs[p].st = "zombie"
          /\ ~Lookup(procs[p].name).runOnce
          /\ Lookup(procs[p].name).process = p

\* C10: the interrupt handler sets the system inactive, signals the process
\* of every active service, signals no recorded pid of an inactive service, and
\* exits with status 0.
InterruptSignalsActiveOnly ==
    pc = "exit0" =>
        /\ ~fActive
        /\ \A k \in DOMAIN services :
              /\ services[k].active => services[k].process \in intSent
              /\ ~services[k].active => services[k].process \notin intSent

\* C11: an interrupt delivered once Start() has spawned a service ends the
\* supervisor through sigIntHandler only: whenever an interrupt has ended it,
\* the handler has signalled every recorded child and the exit status is 0,
\* also when the interrupt arrived while Start() was still spawning.
InterruptAlwaysForwardedExitZero ==
    (procs # <<>> /\ pc \in {"killed", "exit0"}) =>
        /\ pc = "exit0"
        /\ \A k \in DOMAIN services :
              services[k].process # Nil => services[k].process \in intSent

(***************************************************************************)
(* Procfiles in which a dependency list names a service that is declared   *)
(* nowhere.                                                                *)
(***************************************************************************)
\* a dependency name without a service definition
Undeclared == "x"

\* service a depends on the undeclared name, b on declared names only
PhantomProcfiles ==
    {procfile \in [Declared -> [runOnce : BOOLEAN,
                                deps : SeqsUpTo(DepNames \cup {Undeclared}, MaxDeps)]] :
        /\ procfile["a"].deps = <<Undeclared>>
        /\ Undeclared \notin Range(procfile["b"].deps)}

PhantomInit ==
    /\ services \in {New(procfile) : procfile \in PhantomProcfiles}
    /\ fActive = TRUE
    /\ pc = "new"
    /\ startList = <<>>
    /\ startIdx = 0
    /\ startErr = "none"
    /\ hTodo = {}
    /\ hKey = ""
    /\ hService = ZeroService
    /\ procs = <<>>
    /\ checkers = <<>>
    /\ intSent = {}
    /\ killFailed = {}
    /\ depKilled = {}
    /\ lastStart = [name |-> "", err |-> "none"]
    /\ tGraph = <<>> /\ tOrder = <<>> /\ tCyclic = FALSE /\ tSorted = <<>>
    /\ tpc = "off"
    /\ tIn = <<>> /\ tOut = <<>>

PhantomSpec == PhantomInit /\ [][Next]_vars

\* C12: a dependency name without a declared service never appears in the
\* topological order and is never started: the start list, the spawned
\* processes and the registry entries name declared services only.
OnlyDeclaredServicesStarted ==
    /\ Range(startList) \subseteq Declared
    /\ \A p \in DOMAIN procs : procs[p].name \in Declared
    /\ DOMAIN services \subseteq Declared

(***************************************************************************)
(* checkPorts(portType): the ports of the service's checks looked up in    *)
(* the output of netstat.                                                  *)
(***************************************************************************)
\* longest port list of a service's checks
MaxPorts == 2

\* largest process id that may own a socket
MaxPid == 2

PortNames == {"80", "81"}

PortTypes == {"tcp", "udp"}

\* what netstat shows for a port: no line at all, a line whose owner is
\* hidden ("-"), or a line owned by a process
Owners ==
    {[kind |-> "none", pid |-> 0], [kind |-> "hidden", pid |-> 0]}
        \cup {[kind |-> "pid", pid |-> q] : q \in 1..MaxPid}

Digits == <<"0", "1", "2", "3", "4", "5", "6", "7", "8", "9">>

RECURSIVE Itoa(_)
\* the decimal digits of n, as netstat prints a pid
Itoa(n) ==
    IF n < 10 THEN <<Digits[n + 1]>>
    ELSE Itoa(n \div 10) \o <<Digits[(n % 10) + 1]>>

\* the output of the pipeline: column 7 ("PID/Program name") of the first
\* line netstat prints for the port, empty when there is no line
netstatOut(owner) ==
    IF owner.kind = "none" THEN <<>>
    ELSE IF owner.kind = "hidden" THEN <<"-", "\n">>
    ELSE Itoa(owner.pid) \o <<"/", "s", "\n">>

\* strings.Split(s, "/")[0]
SplitFirst(s) ==
    IF \E i \in DOMAIN s : s[i] = "/"
    THEN SubSeq(s, 1, (CHOOSE i \in DOMAIN s :
                          s[i] = "/" /\ \A j \in 1..(i - 1) : s[j] # "/") - 1)
    ELSE s

RECURSIVE DigitsValue(_)
DigitsValue(s) ==
    IF s = <<>> THEN 0
    ELSE 10 * DigitsValue(SubSeq(s, 1, Len(s) - 1))
            + (CHOOSE d \in 0..9 : Digits[d + 1] = s[Len(s)])

\* strconv.Atoi(s): the value and whether err # nil
Atoi(s) ==
    IF s = <<>> \/ \E i \in DOMAIN s : s[i] \notin Range(Digits)
    THEN [val |-> 0, err |-> TRUE]
    ELSE [val |-> DigitsValue(s), err |-> FALSE]

RECURSIVE checkPortsFrom(_, _, _, _, _)
\* the loop of checkPorts from position i: TRUE is a nil result
checkPortsFrom(ports, i, portType, table, pid) ==
    IF i > Len(ports) THEN TRUE
    ELSE LET r == Atoi(SplitFirst(netstatOut(table[<<portType, ports[i]>>])))
         IN  IF r.err \/ r.val # pid
             THEN ~r.err               \* return err
             ELSE checkPortsFrom(ports, i + 1, portType, table, pid)

\* s.checkPorts(portType) == nil
checkPorts(s, portType, table) ==
    checkPortsFrom(IF portType = "tcp" THEN s.tcpPorts ELSE s.udpPorts,
                   1, portType, table, s.pid)

PortInputs ==
    [s : [tcpPorts : SeqsUpTo(PortNames, MaxPorts),
          udpPorts : SeqsUpTo(PortNames, MaxPorts),
          pid : 1..MaxPid],
     portType : PortTypes,
     table : [PortTypes \X PortNames -> Owners]]

PortInit ==
    /\ tIn \in PortInputs
    /\ tOut = <<>>
    /\ tpc = "ports"
    /\ tGraph = <<>> /\ tOrder = <<>> /\ tCyclic = FALSE /\ tSorted = <<>>
    /\ services = <<>> /\ fActive = TRUE /\ pc = "off" /\ startList = <<>>
    /\ startIdx = 0 /\ startErr = "none" /\ hTodo = {} /\ hKey = ""
    /\ hService = ZeroService /\ procs = <<>> /\ checkers = <<>>
    /\ intSent = {} /\ killFailed = {} /\ depKilled = {}
    /\ lastStart = [name |-> "", err |-> "none"]

RunCheckPorts ==
    /\ tpc = "ports"
    /\ tOut' = IF checkPorts(tIn.s, tIn.portType, tIn.table) THEN "nil" ELSE "error"
    /\ tpc' = "checkPorts"
    /\ UNCHANGED <<tGraph, tOrder, tCyclic, tSorted, tIn, svars>>

PortNext == RunCheckPorts

PortSpec == PortInit /\ [][PortNext]_vars

\* the ports checkPorts(portType) is to look up
CheckedPorts ==
    Range(IF tIn.portType = "tcp" THEN tIn.s.tcpPorts ELSE tIn.s.udpPorts)

\* C13: the port check returns an error exactly when, for some declared port
\* of the checked type, netstat shows no socket or a socket owned by a process
\* other than the service's; it passes only if the service's own process owns
\* every declared port.
PortCheckFailsOnAbsenceOrMismatch ==
    tpc = "checkPorts" =>
        (tOut = "error" <=>
            \E port \in CheckedPorts :
                LET owner == tIn.table[<<tIn.portType, port>>]
                IN  owner.kind # "pid" \/ owner.pid # tIn.s.pid)

\* C14: when a spawn fails during Start(), Start() returns that error at
\* once: the processes are those of the services before the failed one in the
\* start list, each of them still recorded active with its pid and not
\* signalled by the supervisor, and the entry of the failed service is as
\* New() left it, with no checker.
SpawnFailureAbortsStart ==
    (pc = "returned" /\ startErr = "spawn") =>
        /\ startIdx <= Len(startList)
        /\ [p \in DOMAIN procs |-> procs[p].name] = SubSeq(startList, 1, startIdx - 1)
        /\ \A p \in DOMAIN procs :
              /\ services[procs[p].name].active
              /\ services[procs[p].name].process = p
              /\ procs[p].st # "reaped"
        /\ intSent = {}
        /\ Len(checkers) = Len(procs)
        /\ LET failed == services[startList[startIdx]]
           IN  /\ ~failed.active
               /\ failed.process = Nil
               /\ \A c \in DOMAIN checkers : checkers[c].name # failed.serviceName

\* the first service of the start list runs, the spawn of the second failed
SecondSpawnFailed ==
    /\ pc = "returned"
    /\ startErr = "spawn"
    /\ startIdx = 2
    /\ Len(procs) = 1
    /\ lastStart = [name |-> startList[2], err |-> "spawn"]

(***************************************************************************)
(* New(procfilePath) from the file on disk: the supervisor exists only if  *)
(* the file could be read and decoded.                                     *)
(***************************************************************************)
\* what procfilePath may name: no file, bytes yaml.Unmarshal rejects, or
\* the text of a Procfile
Files ==
    {[kind |-> k, procfile |-> <<>>] : k \in {"missing", "malformed"}}
        \cup {[kind |-> "yaml", procfile |-> procfile] : procfile \in Procfiles}

\* the *Foreman of "return nil, err"
NilForeman == [nil |-> TRUE, services |-> <<>>, active |-> FALSE]

\* a plausible slip: "return foreman, err" after yaml.Unmarshal failed
NewResultKeepsForeman(file) ==
    IF file.kind = "missing"
    THEN [foreman |-> NilForeman, err |-> "open"]
    ELSE IF file.kind = "malformed"
    THEN [foreman |-> [nil |-> FALSE, services |-> <<>>, active |-> TRUE],
          err |-> "yaml"]
    ELSE [foreman |-> [nil |-> FALSE, services |-> New(file.procfile), active |-> TRUE],
          err |-> "none"]

\* the two results of New(procfilePath)
NewResult(file) ==
    IF file.kind = "missing"
    THEN [foreman |-> NilForeman, err |-> "open"]        \* os.ReadFile failed
    ELSE IF file.kind = "malformed"
    THEN [foreman |-> NilForeman, err |-> "yaml"]        \* yaml.Unmarshal failed
    ELSE [foreman |-> [nil |-> FALSE, services |-> New(file.procfile), active |-> TRUE],
          err |-> "none"]

NewInit ==
    /\ tIn \in Files
    /\ tOut = <<>>
    /\ tpc = "file"
    /\ tGraph = <<>> /\ tOrder = <<>> /\ tCyclic = FALSE /\ tSorted = <<>>
    /\ services = <<>> /\ fActive = FALSE /\ pc = "off" /\ startList = <<>>
    /\ startIdx = 0 /\ startErr = "none" /\ hTodo = {} /\ hKey = ""
    /\ hService = ZeroService /\ procs = <<>> /\ checkers = <<>>
    /\ intSent = {} /\ killFailed = {} /\ depKilled = {}
    /\ lastStart = [name |-> "", err |-> "none"]

\* the caller runs New(); with a Foreman in hand it may go on to Start()
RunNew ==
    /\ tpc = "file"
    /\ tOut' = NewResult(tIn)
    /\ tpc' = "New"
    /\ IF tOut'.foreman.nil
       THEN /\ pc' = "noForeman"
            /\ UNCHANGED <<services, fActive>>
       ELSE /\ pc' = "new"
            /\ services' = tOut'.foreman.services
            /\ fActive' = tOut'.foreman.active
    /\ UNCHANGED <<startList, startIdx, startErr, hTodo, hKey, hService, procs,
                   checkers, intSent, killFailed, depKilled, lastStart,
                   tGraph, tOrder, tCyclic, tSorted, tIn>>

NewNext == RunNew \/ Next

NewSpec == NewInit /\ [][NewNext]_vars

\* C15: when the configuration file is missing or is not well-formed YAML,
\* New() returns an error and no Foreman: no service is registered and no
\* process is ever spawned.
NewFailureGivesNoForeman ==
    (tpc = "New" /\ tIn.kind # "yaml") =>
        /\ tOut.err # "none"
        /\ tOut.foreman.nil
        /\ pc = "noForeman"
        /\ services = <<>>
        /\ procs = <<>>
        /\ checkers = <<>>

\* New() has rejected a file that is not YAML
MalformedFileRejected ==
    /\ tpc = "New"
    /\ tIn.kind = "malformed"
    /\ tOut.err = "yaml"

(***************************************************************************)
(* parseService(serviceMap): one service definition as yaml.Unmarshal      *)
(* decoded it, a map from the keys present to their values.  A key is      *)
(* modelled by a field that says whether it is present; the values have    *)
(* the types the type assertions of the parser expect.                     *)
(***************************************************************************)
\* a key of a YAML map that may be missing
Opt(S, zero) == {[has |-> FALSE, v |-> zero]} \cup {[has |-> TRUE, v |-> x] : x \in S}

Cmds == {"ls"}

TcpNumbers == {80, 443}

UdpNumbers == {53}

ZeroCheckDef ==
    [cmd |-> [has |-> FALSE, v |-> ""],
     tcp_ports |-> [has |-> FALSE, v |-> <<>>],
     udp_ports |-> [has |-> FALSE, v |-> <<>>]]

CheckDefs ==
    [cmd : Opt(Cmds, ""),
     tcp_ports : Opt(SeqsUpTo(TcpNumbers, MaxPorts), <<>>),
     udp_ports : Opt(SeqsUpTo(UdpNumbers, MaxPorts), <<>>)]

ServiceDefs ==
    [cmd : Opt(Cmds, ""),
     run_once : Opt(BOOLEAN, FALSE),
     deps : Opt(SeqsUpTo(DepNames, MaxDeps), <<>>),
     checks : Opt(CheckDefs, ZeroCheckDef)]

\* the keys a range over the map visits
KeysOf(m) == {k \in DOMAIN m : m[k].has}

\* Checks{} and Service{} with the fields the parser sets
ZeroChecks == [cmd |-> "", tcpPorts |-> <<>>, udpPorts |-> <<>>]

ZeroParsed == [cmd |-> "", runOnce |-> FALSE, deps |-> <<>>, checks |-> ZeroChecks]

RECURSIVE parseDepsFrom(_, _, _)
parseDepsFrom(depsList, i, resultList) ==
    IF i > Len(depsList) THEN resultList
    ELSE parseDepsFrom(depsList, i + 1, Append(resultList, depsList[i]))

parseDeps(deps) == parseDepsFrom(deps, 1, <<>>)

RECURSIVE parsePortsFrom(_, _, _)
\* resultList = append(resultList, fmt.Sprint(port.(int)))
parsePortsFrom(portsList, i, resultList) ==
    IF i > Len(portsList) THEN resultList
    ELSE parsePortsFrom(portsList, i + 1, Append(resultList, Itoa(portsList[i])))

parsePorts(ports) == parsePortsFrom(ports, 1, <<>>)

RECURSIVE parseCheckFrom(_, _, _, _)
\* the range of parseCheck over checkMap, its keys visited in the given order
parseCheckFrom(checkMap, order, i, out) ==
    IF i > Len(order) THEN out
    ELSE LET key == order[i]
             value == checkMap[key].v
         IN  parseCheckFrom(checkMap, order, i + 1,
                 CASE key = "cmd" -> [out EXCEPT !.cmd = value]
                   [] key = "tcp_ports" -> [out EXCEPT !.tcpPorts = parsePorts(value)]
                   [] key = "udp_ports" -> [out EXCEPT !.udpPorts = parsePorts(value)])

parseCheck(check, order) == parseCheckFrom(check, order, 1, ZeroChecks)

RECURSIVE parseServiceResetting(_, _, _, _, _)
\* a plausible slip: the "checks" case builds the service anew
parseServiceResetting(serviceMap, order, checkOrder, i, service) ==
    IF i > Len(order) THEN service
    ELSE LET key == order[i]
             value == serviceMap[key].v
         IN  parseServiceResetting(serviceMap, order, checkOrder, i + 1,
                 CASE key = "cmd" -> [service EXCEPT !.cmd = value]
                   [] key = "run_once" -> [service EXCEPT !.runOnce = value]
                   [] key = "deps" -> [service EXCEPT !.deps = parseDeps(value)]
                   [] key = "checks" ->
                        [ZeroParsed EXCEPT !.checks = parseCheck(value, checkOrder)])

RECURSIVE parseServiceFrom(_, _, _, _, _)
\* the range of parseService over serviceMap, its keys visited in the given
\* order and those of its checks in checkOrder
parseServiceFrom(serviceMap, order, checkOrder, i, service) ==
    IF i > Len(order) THEN service
    ELSE LET key == order[i]
             value == serviceMap[key].v
         IN  parseServiceFrom(serviceMap, order, checkOrder, i + 1,
                 CASE key = "cmd" -> [service EXCEPT !.cmd = value]
                   [] key = "run_once" -> [service EXCEPT !.runOnce = value]
                   [] key = "deps" -> [service EXCEPT !.deps = parseDeps(value)]
                   [] key = "checks" ->
                        [service EXCEPT !.checks = parseCheck(value, checkOrder)])

parseService(serviceMap, order, checkOrder) ==
    parseServiceFrom(serviceMap, order, checkOrder, 1, ZeroParsed)

ParseInit ==
    /\ tIn \in ServiceDefs
    /\ tOut = <<>>
    /\ tOrder = <<>>
    /\ tpc = "definition"
    /\ tGraph = <<>> /\ tCyclic = FALSE /\ tSorted = <<>>
    /\ services = <<>> /\ fActive = TRUE /\ pc = "off" /\ startList = <<>>
    /\ startIdx = 0 /\ startErr = "none" /\ hTodo = {} /\ hKey = ""
    /\ hService = ZeroService /\ procs = <<>> /\ checkers = <<>>
    /\ intSent = {} /\ killFailed = {} /\ depKilled = {}
    /\ lastStart = [name |-> "", err |-> "none"]

RunParseService ==
    /\ tpc = "definition"
    /\ \E order \in Perms(KeysOf(tIn)), checkOrder \in Perms(KeysOf(tIn.checks.v)) :
          /\ tOrder' = order
          /\ tOut' = parseService(tIn, order, checkOrder)
    /\ tpc' = "parseService"
    /\ UNCHANGED <<tGraph, tCyclic, tSorted, tIn, svars>>

ParseNext == RunParseService

ParseSpec == ParseInit /\ [][ParseNext]_vars

\* the strings ports are the decimal texts of the numbers nums, in order
PortsEqual(ports, nums) ==
    /\ Len(ports) = Len(nums)
    /\ \A i \in DOMAIN nums : Atoi(ports[i]) = [val |-> nums[i], err |-> FALSE]

\* C16: parsing a well-formed service definition yields a service whose cmd,
\* run_once, deps, checks.cmd, checks.tcp_ports and checks.udp_ports are the
\* values of the source, lists in source order and omitted keys at their
\* defaults, whatever the order in which the keys are visited.
ParseServiceYieldsSource ==
    tpc = "parseService" =>
        LET c == tIn.checks.v IN
        /\ tOut.cmd = tIn.cmd.v
        /\ tOut.runOnce = tIn.run_once.v
        /\ tOut.deps = tIn.deps.v
        /\ tOut.checks.cmd = c.cmd.v
        /\ PortsEqual(tOut.checks.tcpPorts, c.tcp_ports.v)
        /\ PortsEqual(tOut.checks.udpPorts, c.udp_ports.v)

\* a definition with every key, "checks" visited before "cmd"
ParsedChecksBeforeCmd ==
    /\ tpc = "parseService"
    /\ tOrder = <<"checks", "deps", "cmd", "run_once">>
    /\ tOut.cmd = "ls"
    /\ tOut.runOnce
    /\ tOut.deps = <<"b">>
    /\ tOut.checks.tcpPorts = << <<"4", "4", "3">>, <<"8", "0">> >>
    /\ tOut.checks.udpPorts = << <<"5", "3">> >>

(***************************************************************************)
(* buildDependencyGraph() applied alone to the registry New() built from   *)
(* a Procfile, undeclared dependency names included.                       *)
(***************************************************************************)
BuildProcfiles ==
    [Declared -> [runOnce : BOOLEAN,
                  deps : SeqsUpTo(DepNames \cup {Undeclared}, MaxDeps)]]

BuildInit ==
    /\ tIn \in BuildProcfiles
    /\ services = New(tIn)
    /\ tOut = <<>>
    /\ tpc = "registry"
    /\ tGraph = <<>> /\ tOrder = <<>> /\ tCyclic = FALSE /\ tSorted = <<>>
    /\ fActive = TRUE /\ pc = "off" /\ startList = <<>>
    /\ startIdx = 0 /\ startErr = "none" /\ hTodo = {} /\ hKey = ""
    /\ hService = ZeroService /\ procs = <<>> /\ checkers = <<>>
    /\ intSent = {} /\ killFailed = {} /\ depKilled = {}
    /\ lastStart = [name |-> "", err |-> "none"]

RunBuildDependencyGraph ==
    /\ tpc = "registry"
    /\ tGraph' = buildDependencyGraph
    /\ tpc' = "buildDependencyGraph"
    /\ UNCHANGED <<tOrder, tCyclic, tSorted, tIn, tOut, svars>>

BuildNext == RunBuildDependencyGraph

BuildSpec == BuildInit /\ [][BuildNext]_vars

\* C17: buildDependencyGraph() returns a graph whose keys are exactly the
\* declared service names, each mapped to its declared dependency list in
\* declaration order, and leaves the registry as New() built it.
BuildGraphMatchesDeclarations ==
    tpc = "buildDependencyGraph" =>
        /\ DOMAIN tGraph = Declared
        /\ \A n \in Declared : tGraph[n] = tIn[n].deps
        /\ services = New(tIn)

\* the graph of "a: deps [b]" and "b" without deps
BuildGraphWithLeaf ==
    /\ tpc = "buildDependencyGraph"
    /\ tGraph = [a |-> <<"b">>, b |-> <<>>]

\* C18: whenever the loop of Start() waits for the next signal, every process
\* spawned and not yet reaped is the process recorded in its service's
\* registry entry, and that entry is active; so after a handled SIGCHLD that
\* restarted a service, its entry holds the new pid and active = true.
RegistryTracksLiveProcesses ==
    pc = "wait" =>
        \A p \in DOMAIN procs :
            procs[p].st # "reaped" =>
                /\ Lookup(procs[p].name).process = p
                /\ Lookup(procs[p].name).active

RegistryAccessSerialized ==
    /\ pc # "fatal"
    /\ \A c \in DOMAIN checkers : ~(RegistryReadPending(c) /\ RegistryWritePending)

\* the process whose spawn launched checker c: startService appends to procs
\* and to checkers together
ProcessOf(c) == c

\* C21: a checker goroutine stops only when its process is gone: it has not
\* returned while the process whose spawn launched it still exists, whatever
\* checks failed meanwhile.
CheckerStopsOnlyWhenProcessGone ==
    \A c \in DOMAIN checkers :
        checkers[c].pc = "done" => ~Exists(ProcessOf(c))

\* ---- one tick of checker(), statement by statement ----

CheckResults == {"nil", "error"}

\* the outcome of the probe and of every check the tick may run
TickInputs ==
    [probe : CheckResults, deps : CheckResults, cmd : CheckResults,
     tcp : CheckResults, udp : CheckResults]

\* the checks of one tick in program order
CheckOrder == <<"deps", "cmd", "tcp", "udp">>

\* a variant in which a failed check ends the tick
afterCheckReturning(kind, err) ==
    IF err = "error" \/ kind = "udp" THEN "ticked"
    ELSE CheckOrder[IndexOf(CheckOrder, kind) + 1]

\* where control goes after the check of one kind: the if statement of a
\* failed check sends SIGINT and falls through to the next statement
afterCheck(kind, err) ==
    IF kind = "udp" THEN "ticked"
    ELSE CheckOrder[IndexOf(CheckOrder, kind) + 1]

\* what one check statement does: the call, and the kill when it failed
checkEvents(kind, err) ==
    IF err = "error" THEN <<kind, "SIGINT">> ELSE <<kind>>

TickInit ==
    /\ tIn \in TickInputs
    /\ tOut = <<>>
    /\ tpc = "ticker"
    /\ tGraph = <<>> /\ tOrder = <<>> /\ tCyclic = FALSE /\ tSorted = <<>>
    /\ services = <<>> /\ fActive = TRUE /\ pc = "off" /\ startList = <<>>
    /\ startIdx = 0 /\ startErr = "none" /\ hTodo = {} /\ hKey = ""
    /\ hService = ZeroService /\ procs = <<>> /\ checkers = <<>>
    /\ intSent = {} /\ killFailed = {} /\ depKilled = {}
    /\ lastStart = [name |-> "", err |-> "none"]

TickProbe ==
    /\ tpc = "ticker"
    /\ tOut' = Append(tOut, "probe")
    /\ tpc' = IF tIn.probe = "error" THEN "returned" ELSE "deps"
    /\ UNCHANGED <<tGraph, tOrder, tCyclic, tSorted, tIn, svars>>

TickDeps ==
    /\ tpc = "deps"
    /\ tOut' = tOut \o checkEvents("deps", tIn.deps)
    /\ tpc' = afterCheck("deps", tIn.deps)
    /\ UNCHANGED <<tGraph, tOrder, tCyclic, tSorted, tIn, svars>>

TickCmd ==
    /\ tpc = "cmd"
    /\ tOut' = tOut \o checkEvents("cmd", tIn.cmd)
    /\ tpc' = afterCheck("cmd", tIn.cmd)
    /\ UNCHANGED <<tGraph, tOrder, tCyclic, tSorted, tIn, svars>>

TickTcp ==
    /\ tpc = "tcp"
    /\ tOut' = tOut \o checkEvents("tcp", tIn.tcp)
    /\ tpc' = afterCheck("tcp", tIn.tcp)
    /\ UNCHANGED <<tGraph, tOrder, tCyclic, tSorted, tIn, svars>>

TickUdp ==
    /\ tpc = "udp"
    /\ tOut' = tOut \o checkEvents("udp", tIn.udp)
    /\ tpc' = afterCheck("udp", tIn.udp)
    /\ UNCHANGED <<tGraph, tOrder, tCyclic, tSorted, tIn, svars>>

TickNext == TickProbe \/ TickDeps \/ TickCmd \/ TickTcp \/ TickUdp

TickSpec == TickInit /\ [][TickNext]_vars

\* the checks a tick has run so far, in order
ChecksRun == SelectSeq(tOut, LAMBDA e : e \in Range(CheckOrder))

\* C22: a tick whose liveness probe succeeded runs the dependency, command,
\* TCP and UDP checks, all four and in this order, whichever of them failed,
\* and sends one SIGINT per failed check.
EveryCheckRunsEachTick ==
    (tpc = "ticked") =>
        /\ ChecksRun = CheckOrder
        /\ Len(tOut) = 5 + Cardinality({k \in Range(CheckOrder) : tIn[k] = "error"})

\* a finished tick whose first check failed and whose last check still ran
TickWithFailedDepsRanUdp ==
    /\ tpc = "ticked"
    /\ tIn.probe = "nil"
    /\ tIn.deps = "error"
    /\ tIn.udp = "nil"
    /\ tOut = <<"probe", "deps", "SIGINT", "cmd", "tcp", "udp">>

\* the pids a step sends a checker's SIGINT to
SignalledBy(ks, ds) == (ks \ killFailed) \cup (ds \ depKilled)

\* C23: after the startup loop a process is spawned only by sigChildHandler's
\* call of startService; a step of a checker goroutine spawns nothing, leaves
\* every registry entry as it is, and any SIGINT it sends goes to the pid it
\* holds, a process of its own service.
OnlyReactorSpawnsCheckersOnlySignal ==
    [][/\ Len(procs') > Len(procs) => pc \in {"starting", "chldRestart"}
       /\ \A c \in DOMAIN checkers :
             checkers'[c] # checkers[c] =>
                /\ services' = services
                /\ procs' = procs
                /\ \A p \in SignalledBy(killFailed', depKilled') :
                      /\ p = checkers[c].pid
                      /\ p \in DOMAIN procs
                      /\ procs[p].name = checkers[c].name]_vars

\* the handler has just restarted a service and a checker has sent a SIGINT
RestartedAndCheckerSignalled ==
    /\ pc = "chldWrite"
    /\ lastStart.err = "none"
    /\ Len(procs) > Cardinality(DOMAIN services)
    /\ killFailed \cup depKilled # {}

\* sigChildHandler's restart of service n has just been rejected by checkDeps
RestartRejectedFor(n) ==
    /\ pc = "chldWrite"
    /\ hKey = n
    /\ lastStart = [name |-> n, err |-> "broken"]

\* service n was spawned, has no process left, and its entry is inactive; the
\* entry still reads active while the handler that reaped the process has
\* not written it back (the supervisor may end before that)
StoppedForGood(n) ==
    /\ PidsOf(n) # {}
    /\ \A p \in PidsOf(n) : procs[p].st = "reaped"
    /\ \/ RestartRejectedFor(n)
       \/ ~Running
       \/ ~Lookup(n).active /\ ~(hKey = n /\ pc \in {"chldRestart", "chldWrite"})

\* C24: once sigChildHandler's restart of a service has been rejected for an
\* inactive dependency, the service has no process and an inactive entry from
\* then on: no later step, of the handler or of anything else, spawns it
\* again or marks it active.
RejectedRestartIsFinal ==
    [][\A n \in Declared :
          (RestartRejectedFor(n) \/ StoppedForGood(n)) => StoppedForGood(n)']_vars

\* a restart was rejected earlier, the handler has returned, and a later
\* SIGCHLD is being handled while the rejected service remains stopped
RejectedThenLaterNotification ==
    \E n \in Declared :
        /\ lastStart = [name |-> n, err |-> "broken"]
        /\ pc = "chld"
        /\ hTodo = DOMAIN services
        /\ ~Lookup(n).active
        /\ PidsOf(n) # {}
        /\ \A p \in PidsOf(n) : procs[p].st = "reaped"
        /\ \E q \in DOMAIN procs : procs[q].st = "zombie"

\* C25: every running process is monitored: once the checker goroutine
\* launched by its spawn has taken its copy of the entry, some checker
\* goroutine probes and signals that process's pid, for a restart as for the
\* first start.
RunningProcessHasChecker ==
    \A p \in DOMAIN procs :
        (Running /\ procs[p].st = "running" /\ checkers[p].pc # "new") =>
            \E c \in DOMAIN checkers :
                checkers[c].pc \notin {"new", "done"} /\ checkers[c].pid = p

\* the processes of service name that were spawned and not yet reaped
Unreaped(name) == {p \in PidsOf(name) : procs[p].st # "reaped"}

\* C26: a service never has two spawned-and-not-yet-reaped processes: a
\* process is spawned for it at startup or after its previous one was reaped.
AtMostOneUnreapedProcess ==
    \A n \in DOMAIN services : Cardinality(Unreaped(n)) <= 1

\* a service was restarted: its first process is reaped, its second lives
RestartedAfterReap ==
    \E n \in DOMAIN services :
        /\ Cardinality(PidsOf(n)) = 2
        /\ Cardinality(Unreaped(n)) = 1
        /\ \E p \in Unreaped(n) : \A q \in PidsOf(n) : q <= p

\* C27: the loop of Start() over the sorted list of an acyclic graph of
\* declared services never has a startService call rejected for a broken
\* dependency: at a service's turn every dependency is marked active, even
\* one whose process has already exited.
StartupNeverRejected ==
    [][/\ pc = "starting" => lastStart'.err # "broken"
       /\ startErr' # "broken"]_vars

\* b exited during startup and a, which depends on b, was started after that
DependentStartedAfterDependencyExit ==
    /\ pc = "starting"
    /\ Len(procs) = 2
    /\ services["a"].deps = <<"b">>
    /\ procs[1] = [name |-> "b", st |-> "zombie"]
    /\ procs[2].name = "a"
    /\ lastStart = [name |-> "a", err |-> "none"]
    /\ services["b"].active

\* every dependency name of g is a key of g
AllDepsDeclared(g) == \A u \in DOMAIN g : Range(g[u]) \subseteq DOMAIN g

\* C28: for every acyclic graph whose dependency names are all keys and for
\* every iteration order, topSort returns a permutation of the keys: each
\* declared name once, none missing, none added.
TopSortIsPermutationOfKeys ==
    (tpc = "topSort" /\ ~HasCycle(tGraph) /\ AllDepsDeclared(tGraph)) =>
        /\ Len(tSorted) = Cardinality(DOMAIN tGraph)
        /\ Range(tSorted) = DOMAIN tGraph

\* a is reached three times (as a root, from b and from c) and listed once
TopSortSharedDependencyOnce ==
    /\ tpc = "topSort"
    /\ tGraph = [a |-> <<>>, b |-> <<"a">>, c |-> <<"a", "b">>]
    /\ tOrder = <<"b", "c", "a">>
    /\ tSorted = <<"a", "b", "c">>

\* C29: a checker goroutine never sends SIGINT to the pid of a process that
\* has already been reaped, however its tick interleaves with the handler's
\* reap of the same service.
CheckerNeverSignalsReapedPid ==
    \A p \in killFailed : p \in DOMAIN procs => procs[p].st # "reaped"
====
